---- MODULE Spec2Model ----
(***************************************************************************)
(* A model of quicknlp's training core: the decoder losses and the CVAE    *)
(* losses of quicknlp/data/learners.py and the S2SStepper of               *)
(* quicknlp/stepper.py.                                                    *)
(*                                                                         *)
(* Tensors are records [shape, data] with data the contiguous row-major    *)
(* flattening.  Python's Optional values are <<>> (None) or <<x>>.         *)
(* Floats that are ratios of small integers are pairs <<num, den>>.        *)
(***************************************************************************)
EXTENDS Integers, Sequences, FiniteSets, TLC

VARIABLES lc,          \* the pending/last direct call of a decoder loss
          STEP,        \* learners.py module global STEP
          hist,        \* history of the step values passed to the CVAE losses
          last,        \* the last operation performed: its arguments and outcome
          self,        \* the S2SStepper's configuration
          m,           \* the model: pr_force, and data and grad per parameter
          fp32_params, \* the full-precision copies of the parameters (fp16)
          opt,         \* the optimizer: its param_groups
          nCalls,      \* number of step calls that reached the optimizer
          examples_pickle, \* the file examples.pickle under the data path
          datasets     \* the last call of splits: its arguments and result

stepper == <<self, m, fp32_params, opt, nCalls>>

data == <<examples_pickle, datasets>>

vars == <<lc, STEP, hist, last, self, m, fp32_params, opt, nCalls,
          examples_pickle, datasets>>

----------------------------------------------------------------------------
(* Bounds of the model *)

MaxSl == 3

BatchSizes == {1, 2}
Vocabs == {2, 3}
PadIdxs == {0, 1}

----------------------------------------------------------------------------
(* Optional values and ratios *)

None == <<>>
Some(x) == <<x>>
IsNone(o) == o = <<>>
Val(o) == o[1]

Min(a, b) == IF a <= b THEN a ELSE b

RatEq(p, q) == p[1] * q[2] = q[1] * p[2]
RatLe(p, q) == p[1] * q[2] <= q[1] * p[2]
RatLt(p, q) == p[1] * q[2] < q[1] * p[2]

----------------------------------------------------------------------------
(* torch tensors: size, indexing, F.pad, slicing, view *)

Numel(shape) == IF Len(shape) = 0 THEN 1
                ELSE IF Len(shape) = 1 THEN shape[1]
                ELSE IF Len(shape) = 2 THEN shape[1] * shape[2]
                ELSE shape[1] * shape[2] * shape[3]

\* element [i, j, k] (0-based) of a contiguous 3-d tensor
At3(t, i, j, k) == t.data[(i * t.shape[2] + j) * t.shape[3] + k + 1]

\* element [i, j] (0-based) of a contiguous 2-d tensor
At2(t, i, j) == t.data[i * t.shape[2] + j + 1]

\* the vector t[i, j, :] of a 3-d tensor
Row3(t, i, j) == [k \in 1..t.shape[3] |-> At3(t, i, j, k - 1)]

\* torch.nn.functional.pad(t, p, value) on a 3-d tensor: the pairs of p are
\* (left, right) amounts starting from the LAST dimension and moving forward
FPad(t, p, value) ==
    LET s  == t.shape
        ns == <<s[1] + p[5] + p[6], s[2] + p[3] + p[4], s[3] + p[1] + p[2]>>
    IN [shape |-> ns,
        data  |-> [n \in 1..Numel(ns) |->
                     LET i  == (n - 1) \div (ns[2] * ns[3])
                         j  == ((n - 1) \div ns[3]) % ns[2]
                         k  == (n - 1) % ns[3]
                         oi == i - p[5]
                         oj == j - p[3]
                         ok == k - p[1]
                     IN IF /\ oi >= 0 /\ oi < s[1]
                           /\ oj >= 0 /\ oj < s[2]
                           /\ ok >= 0 /\ ok < s[3]
                        THEN At3(t, oi, oj, ok)
                        ELSE value]]

\* t[:n] : the first n entries along dimension 0
SlicedShape(shape, n) == <<Min(shape[1], n)>> \o Tail(shape)

SliceDim0(t, n) ==
    [shape |-> SlicedShape(t.shape, n),
     data  |-> SubSeq(t.data, 1, Numel(SlicedShape(t.shape, n)))]

\* t.view(-1, cols) is defined when the element count is a multiple of cols
ViewOk(t, cols) == Numel(t.shape) % cols = 0

ViewRows(t, cols) ==
    [shape |-> <<Numel(t.shape) \div cols, cols>>, data |-> t.data]

\* t.view(-1)
ViewFlat(t) == [shape |-> <<Numel(t.shape)>>, data |-> t.data]

\* a model output whose elements are pairwise distinct and non-zero
Labelled(shape) == [shape |-> shape, data |-> [n \in 1..Numel(shape) |-> n]]

\* the rows of a 2-d tensor, as a sequence of vectors
Rows(t2) == [r \in 1..t2.shape[1] |->
               [k \in 1..t2.shape[2] |-> At2(t2, r - 1, k - 1)]]

----------------------------------------------------------------------------
(* F.cross_entropy(input, target, ignore_index): the loss is the mean, over *)
(* the rows whose target is not ignore_index, of -log_softmax(row)[target]. *)
(* It is kept as the sequence of the <<row, target>> pairs it averages.     *)

Raised == [raised |-> TRUE, logits |-> <<>>, terms |-> <<>>]

\* no loss computed yet
NoOut == [raised |-> FALSE, logits |-> <<>>, terms |-> <<>>]

RECURSIVE KeptTerms(_, _, _, _)
KeptTerms(rows, tgt, ignore_index, n) ==
    IF n = 0 THEN <<>>
    ELSE LET before == KeptTerms(rows, tgt, ignore_index, n - 1)
         IN IF tgt[n] = ignore_index THEN before
            ELSE Append(before, <<rows[n], tgt[n]>>)

cross_entropy(input2, target1, ignore_index) ==
    IF input2.shape[1] # target1.shape[1]
    THEN Raised  \* ValueError: expected input batch size to match target batch size
    ELSE [raised |-> FALSE,
          logits |-> Rows(input2),
          terms  |-> KeptTerms(Rows(input2), target1.data, ignore_index,
                               target1.shape[1])]

----------------------------------------------------------------------------
(* learners.py: decoder_loss *)

\* decoder_loss without `input = input[:sl]`
decoder_loss_untruncated(input, target, pad_idx, predict_first_token) ==
    LET sl_in   == input.shape[1]
        vocab   == input.shape[3]
        sl      == target.shape[1]
        padded  == IF sl > sl_in
                   THEN FPad(input, <<0, sl - sl_in, 0, 0, 0, 0>>, 0)
                   ELSE input
        input1  == IF predict_first_token THEN SliceDim0(padded, 1) ELSE padded
        target1 == IF predict_first_token THEN SliceDim0(target, 1) ELSE target
    IN IF ~ViewOk(input1, vocab)
       THEN Raised
       ELSE cross_entropy(ViewRows(input1, vocab), ViewFlat(target1), pad_idx)

decoder_loss(input, target, pad_idx, predict_first_token) ==
    LET sl_in   == input.shape[1]
        vocab   == input.shape[3]
        sl      == target.shape[1]
        padded  == IF sl > sl_in
                   THEN FPad(input, <<0, sl - sl_in, 0, 0, 0, 0>>, 0)
                   ELSE input
        cut     == SliceDim0(padded, sl)
        input1  == IF predict_first_token THEN SliceDim0(cut, 1) ELSE cut
        target1 == IF predict_first_token THEN SliceDim0(target, 1) ELSE target
    IN IF ~ViewOk(input1, vocab)
       THEN Raised  \* RuntimeError: view size is not compatible with input size
       ELSE cross_entropy(ViewRows(input1, vocab), ViewFlat(target1), pad_idx)

----------------------------------------------------------------------------
(* learners.py: decoder_loss_smoothed.  The smoothed target row of a       *)
(* position is fixed by the class scattered into it (NoClass for a row     *)
(* scatter did not touch, which stays uniform), so the loss is kept as the *)
(* sequence of <<logit row, class>> over every position of the input that  *)
(* reaches binary_cross_entropy_with_logits.                               *)

NoClass == -1

\* zeros_like(input).scatter(2, index, v) with index = target.unsqueeze(-1):
\* index may not exceed input in the dimensions other than 2
ScatterOk(input, target) ==
    /\ target.shape[1] <= input.shape[1]
    /\ target.shape[2] <= input.shape[2]

ScatteredClass(input, target, i, j) ==
    IF i < target.shape[1] /\ j < target.shape[2]
    THEN At2(target, i, j)
    ELSE NoClass

decoder_loss_smoothed(input, target, pad_idx) ==
    LET sl_in  == input.shape[1]
        sl     == target.shape[1]
        padded == IF sl > sl_in
                  THEN FPad(input, <<0, sl - sl_in, 0, 0, 0, 0>>, 0)
                  ELSE input
        bs_in  == padded.shape[2]
        npos   == padded.shape[1] * bs_in
    IN IF ~ScatterOk(padded, target)
       THEN Raised  \* RuntimeError: index larger than the tensor scattered into
       ELSE [raised |-> FALSE,
             logits |-> [n \in 1..npos |->
                           Row3(padded, (n - 1) \div bs_in, (n - 1) % bs_in)],
             terms  |-> [n \in 1..npos |->
                           <<Row3(padded, (n - 1) \div bs_in, (n - 1) % bs_in),
                             ScatteredClass(padded, target,
                                            (n - 1) \div bs_in, (n - 1) % bs_in)>>]]

----------------------------------------------------------------------------
(* learners.py: cvae_loss and cvae_loss_sigmoid.  Arguments are kept by    *)
(* shape; the values torch computes for the three component losses are     *)
(* carried by the input (nll, bow, kld).                                   *)

\* `a, b, c, d, e, f = input`: a 6-tuple unpacks to its members, a tensor
\* unpacks along dimension 0 and must have exactly 6 entries there
UnpackOk(input) ==
    \/ input.kind = "tuple"
    \/ input.kind = "tensor" /\ input.shape[1] = 6

\* the shape of `predictions` after unpacking
PredictionsShape(input) ==
    IF input.kind = "tuple" THEN input.shape ELSE Tail(input.shape)

\* the ramp without the + 1
kld_weight_from_zero(step, max_kld_step) ==
    IF IsNone(max_kld_step) THEN <<1, 1>>
    ELSE IF RatLe(<<step, Val(max_kld_step)>>, <<1, 1>>)
         THEN <<step, Val(max_kld_step)>>
         ELSE <<1, 1>>

\* kld_weight = 1.0 if max_kld_step is None else min((step + 1) / max_kld_step, 1)
kld_weight(step, max_kld_step) ==
    IF IsNone(max_kld_step) THEN <<1, 1>>
    ELSE IF RatLe(<<step + 1, Val(max_kld_step)>>, <<1, 1>>)
         THEN <<step + 1, Val(max_kld_step)>>
         ELSE <<1, 1>>

\* the diagnostic branch shared by both losses:
\*     if step > STEP:
\*         if step == 0: STEP = 0
\*         print(...)
\*         STEP += 1
\* gives <<whether a line is printed, the new value of STEP>>
Diagnostic(step, STEP0) ==
    IF step > STEP0
    THEN <<TRUE, (IF step = 0 THEN 0 ELSE STEP0) + 1>>
    ELSE <<FALSE, STEP0>>

\* decoder_loss + bow_loss + kld_loss * kld_weight, as a ratio
Total(input, w) == <<(input.nll + input.bow) * w[2] + input.kld * w[1], w[2]>>

CvaeRaised(STEP0) ==
    [raised |-> TRUE, kld_weight |-> None, emitted |-> FALSE, STEP |-> STEP0,
     loss |-> None]

CvaeTail(input, step, max_kld_step, STEP0) ==
    LET w == kld_weight(step, max_kld_step)
        d == Diagnostic(step, STEP0)
    IN [raised |-> FALSE, kld_weight |-> Some(w), emitted |-> d[1],
        STEP |-> d[2], loss |-> Some(Total(input, w))]

cvae_loss(input, target, step, max_kld_step, STEP0) ==
    IF ~UnpackOk(input)
    THEN CvaeRaised(STEP0)  \* ValueError: not 6 values to unpack
    ELSE LET pshape == PredictionsShape(input)
         IN IF Len(pshape) # 3
            THEN CvaeRaised(STEP0)  \* sl, bs, vocab = predictions.size()
            ELSE IF Min(pshape[1], target[1]) * pshape[2] # target[1] * target[2]
                 THEN CvaeRaised(STEP0)  \* cross_entropy: batch size mismatch
                 ELSE CvaeTail(input, step, max_kld_step, STEP0)

cvae_loss_sigmoid(input, target, step, max_kld_step, STEP0) ==
    IF ~UnpackOk(input)
    THEN CvaeRaised(STEP0)  \* ValueError: not 6 values to unpack
    ELSE LET pshape == PredictionsShape(input)
             vocab  == pshape[Len(pshape)]
             rows   == Numel(SlicedShape(pshape, target[1])) \div vocab
         IN IF rows # target[1] * target[2]
            THEN CvaeRaised(STEP0)  \* cross_entropy: batch size mismatch
            ELSE CvaeTail(input, step, max_kld_step, STEP0)

----------------------------------------------------------------------------
(* stepper.py: S2SStepper.  The model m holds its teacher-forcing          *)
(* probability and, per parameter, data and grad; the optimizer updates m  *)
(* itself, or the full-precision copies fp32_params under fp16.            *)

\* the model's parameters: parameter 1 carries the gradient of every loss,
\* parameter 2 is one that a graph may leave out
Params == {1, 2}

MaxCalls == 1

\* the schedule consulted before the static override
teacher_forcing_schedule_first(s, epoch) ==
    IF ~IsNone(s.teacher_forcing_epochs)
    THEN IF 0 <= epoch /\ epoch < Val(s.teacher_forcing_epochs)
         THEN <<Val(s.teacher_forcing_epochs) - epoch, Val(s.teacher_forcing_epochs)>>
         ELSE <<0, 1>>
    ELSE IF ~IsNone(s.static_teacher_forcing_probability)
         THEN Val(s.static_teacher_forcing_probability)
         ELSE <<1, 1>>

\* step, lines 19-26: the teacher-forcing probability for this epoch
teacher_forcing(s, epoch) ==
    IF ~IsNone(s.static_teacher_forcing_probability)
    THEN Val(s.static_teacher_forcing_probability)
    ELSE IF IsNone(s.teacher_forcing_epochs) THEN <<1, 1>>
    ELSE IF 0 <= epoch /\ epoch < Val(s.teacher_forcing_epochs)
         THEN <<Val(s.teacher_forcing_epochs) - epoch, Val(s.teacher_forcing_epochs)>>
         ELSE <<0, 1>>

\* `if isinstance(output, tuple): output, *xtra = output` (and preds[0] in
\* evaluate): what is handed on is the predictions tensor
Unwrap(output) ==
    IF output.kind = "tuple" THEN [output EXCEPT !.kind = "tensor"] ELSE output

\* The model outputs and batches the stepper is driven with: predictions by
\* shape, with the values torch computes for the component losses
Outputs ==
    { [kind |-> "tensor", shape |-> <<2, 1, 2>>, nll |-> 3, bow |-> 1, kld |-> 4],
      [kind |-> "tensor", shape |-> <<1, 1, 2>>, nll |-> 3, bow |-> 1, kld |-> 4],
      [kind |-> "tuple", shape |-> <<2, 1, 2>>, nll |-> 3, bow |-> 1, kld |-> 4],
      [kind |-> "tuple", shape |-> <<6, 1, 2>>, nll |-> 3, bow |-> 1, kld |-> 4] }

\* the gradient of the raw loss and of the penalty: parameter 1 carries the
\* gradient, the other parameters of the graph receive zero
Batch(o, gr) ==
    [output |-> o,
     y      |-> IF o.shape[1] = 6 THEN <<1, 1>> ELSE <<2, 1>>,
     graph  |-> gr,
     g      |-> [p \in gr |-> IF p = 1 THEN 4 ELSE 0],
     r      |-> [p \in gr |-> IF p = 1 THEN 2 ELSE 0],
     pen    |-> 1]

\* every output with all parameters in the graph, and the plain output also
\* with parameter 1 alone in it
Batches ==
    { Batch(o, Params) : o \in Outputs }
    \cup { Batch(o, {1}) : o \in {x \in Outputs : x.kind = "tensor" /\ x.shape[1] = 2} }

\* the batches of a CVAE model, which returns the 6-tuple
CvaeBatches == { b \in Batches : b.output.kind = "tuple" /\ b.graph = Params }

\* a target of the given shape with no padding in it (pad_idx is 1)
UnpaddedTarget(shape) ==
    [shape |-> shape, data |-> [n \in 1..Numel(shape) |-> 0]]

\* EncoderDecoderLearner.s2sloss with smoothing_factor None: decoder_loss,
\* which takes step and max_kld_step into **kwargs and ignores them
decoder_loss_raises ==
    [sp \in { <<b.output.shape, b.y>> : b \in Batches } |->
        decoder_loss(Labelled(sp[1]), UnpaddedTarget(sp[2]), 1, FALSE).raised]

s2sloss(input, target, STEP0) ==
    IF decoder_loss_raises[<<input.shape, target>>]
    THEN CvaeRaised(STEP0)
    ELSE [raised |-> FALSE, kld_weight |-> None, emitted |-> FALSE,
          STEP |-> STEP0, loss |-> Some(<<input.nll, 1>>)]

\* self.crit(input, target, step=..., max_kld_step=...)
crit(s, input, target, step, max_kld_step, STEP0) ==
    IF s.crit = "s2sloss" THEN s2sloss(input, target, STEP0)
    ELSE IF s.crit = "cvae_loss"
         THEN cvae_loss(input, target, step, max_kld_step, STEP0)
         ELSE cvae_loss_sigmoid(input, target, step, max_kld_step, STEP0)

IsCvaeCrit(s) == s.crit \in {"cvae_loss", "cvae_loss_sigmoid"}

\* a step that leaves the gradients of the step before in place
ZeroGrad_skipped(grad) == grad

\* zero_grad: a gradient that exists is zeroed, a missing one stays missing
ZeroGrad(grad) ==
    [p \in Params |-> IF IsNone(grad[p]) THEN None ELSE Some(0)]

\* loss * self.loss_scale
Scaled(loss, scale) ==
    [value |-> <<loss.value[1] * scale, loss.value[2]>>,
     grad  |-> [p \in DOMAIN loss.grad |-> loss.grad[p] * scale]]

\* self.reg_fn(output, xtra, raw_loss): the raw loss plus a penalty
Regularized(raw_loss, batch) ==
    [value |-> <<raw_loss.value[1] + batch.pen * raw_loss.value[2],
                 raw_loss.value[2]>>,
     grad  |-> [p \in DOMAIN raw_loss.grad |-> raw_loss.grad[p] + batch.r[p]]]

\* loss.backward(): gradients accumulate into the parameters of the graph
Backward(grad, loss) ==
    [p \in Params |->
        IF p \in DOMAIN loss.grad
        THEN Some((IF IsNone(grad[p]) THEN 0 ELSE Val(grad[p])) + loss.grad[p])
        ELSE grad[p]]

\* update_fp32_grads(self.fp32_params, self.m)
UpdateFp32Grads(fp32, mgrad) == [fp32 EXCEPT !.grad = mgrad]

\* for param in self.fp32_params: param.grad.data.div_(self.loss_scale)
Unscaled(fp32, scale) ==
    [fp32 EXCEPT !.grad =
        [p \in Params |-> IF IsNone(fp32.grad[p]) THEN None
                          ELSE Some(Val(fp32.grad[p]) \div scale)]]

Abs(x) == IF x < 0 THEN -x ELSE x

RECURSIVE SumAbs(_, _)
SumAbs(grad, ps) ==
    IF ps = {} THEN 0
    ELSE LET p == CHOOSE q \in ps : TRUE
         IN SumAbs(grad, ps \ {p}) + (IF IsNone(grad[p]) THEN 0 ELSE Abs(Val(grad[p])))

\* nn.utils.clip_grad_norm_(trainable_params_(self.m), self.clip), for
\* gradients with at most one non-zero component, whose norm is SumAbs
ClipGradNorm(grad, max_norm) ==
    LET total == SumAbs(grad, Params)
    IN IF total >= max_norm /\ total > 0
       THEN [p \in Params |-> IF IsNone(grad[p]) THEN None
                              ELSE Some((Val(grad[p]) * max_norm) \div total)]
       ELSE grad

\* a dict is never equal to a str
DictEqualsStr(d, str) == FALSE

\* Python's `str in list`
StrInList(str, list) == \E i \in 1..Len(list) : DictEqualsStr(list[i], str)

\* `'wd' in self.opt.param_groups and self.opt.param_groups['wd'] != 0`:
\* param_groups is the optimizer's list of group dicts, so the first operand
\* decides and the second is never evaluated
WeightDecayGuard(o) == StrInList("wd", o.param_groups)

\* p.data = p.data.add(-wd * lr, p.data)
DecayOne(group, v, g) == v + (-group.wd * group.lr) * v

\* the optimizer's own update (plain SGD): p.data -= lr * p.grad
SgdOne(group, v, g) == v - group.lr * g

\* `for group in param_groups: for p in group['params']:` applying one of
\* the two updates to every parameter that has a gradient
RECURSIVE GroupsApply(_, _, _, _)
GroupsApply(update, groups, store, n) ==
    IF n = 0 THEN store.data
    ELSE LET before == GroupsApply(update, groups, store, n - 1)
         IN [p \in Params |->
               IF p \in groups[n].params /\ ~IsNone(store.grad[p])
               THEN IF update = "decay"
                    THEN DecayOne(groups[n], before[p], Val(store.grad[p]))
                    ELSE SgdOne(groups[n], before[p], Val(store.grad[p]))
               ELSE before[p]]

\* lines 47-50: every parameter of every group that has a gradient
WeightDecay(o, store) ==
    [store EXCEPT !.data =
        GroupsApply("decay", o.param_groups, store, Len(o.param_groups))]

OptStep(o, store) ==
    [store EXCEPT !.data =
        GroupsApply("sgd", o.param_groups, store, Len(o.param_groups))]

\* returning the loss that was backpropagated
Returned_backprop_loss(raw_loss, loss) == loss.value

\* what step returns: torch_item(raw_loss.data)
Returned(raw_loss, loss) == raw_loss.value

----------------------------------------------------------------------------
(* Direct calls of the CVAE losses, as a test or a training loop makes them *)

MaxStep == 3
MaxKldStep == 2

\* the step values tried: a small range, and the values 9 and 20
StepArgs == 0..MaxStep \cup {9, 20}
KldStepArgs == {None, Some(10)} \cup {Some(k) : k \in 1..MaxKldStep}

NoHist == [maxStep |-> -1, zeroSeen |-> FALSE, maxSinceZero |-> -1]

NoCall == [op |-> "none", via |-> "none", step |-> None, max_kld_step |-> None,
           raised |-> FALSE, kld_weight |-> None, emitted |-> FALSE,
           loss |-> None, maxBefore |-> -1, zeroSeenBefore |-> FALSE,
           maxSinceZeroBefore |-> -1, STEPBefore |-> 0,
           epoch |-> None, batch |-> None, pr_force |-> None,
           returned |-> None, backprop |-> None, beforeDecay |-> None,
           afterDecay |-> None, stages |-> <<>>]

Max(a, b) == IF a >= b THEN a ELSE b

\* the history after one more call with this step value
Seen(h, step) ==
    [maxStep      |-> Max(h.maxStep, step),
     zeroSeen     |-> h.zeroSeen \/ step = 0,
     maxSinceZero |-> IF step = 0 THEN 0
                      ELSE IF h.zeroSeen THEN Max(h.maxSinceZero, step)
                      ELSE -1]

\* a well-formed CVAE model output and its target
CvaeOutput == [kind |-> "tuple", shape |-> <<2, 1, 2>>, nll |-> 2, bow |-> 1,
               kld |-> 4]
CvaeTarget == <<2, 1>>

Recorded(op, via, step, max_kld_step, r) ==
    [NoCall EXCEPT !.op = op, !.via = via, !.step = Some(step),
                   !.max_kld_step = max_kld_step, !.raised = r.raised,
                   !.kld_weight = r.kld_weight, !.emitted = r.emitted,
                   !.loss = r.loss, !.maxBefore = hist.maxStep,
                   !.zeroSeenBefore = hist.zeroSeen,
                   !.maxSinceZeroBefore = hist.maxSinceZero,
                   !.STEPBefore = STEP]

CallCvaeLoss(step, max_kld_step) ==
    LET r == cvae_loss(CvaeOutput, CvaeTarget, step, max_kld_step, STEP)
    IN /\ STEP' = r.STEP
       /\ hist' = Seen(hist, step)
       /\ last' = Recorded("cvae_loss", "direct", step, max_kld_step, r)
       /\ UNCHANGED <<lc, stepper, data>>

CallCvaeLossSigmoid(step, max_kld_step) ==
    LET r == cvae_loss_sigmoid(CvaeOutput, CvaeTarget, step, max_kld_step, STEP)
    IN /\ STEP' = r.STEP
       /\ hist' = Seen(hist, step)
       /\ last' = Recorded("cvae_loss_sigmoid", "direct", step, max_kld_step, r)
       /\ UNCHANGED <<lc, stepper, data>>

----------------------------------------------------------------------------
(* S2SStepper.step and S2SStepper.evaluate *)

\* cvae_loss(input, target, pad_idx, step=0, max_kld_step=None, **kwargs)
DefaultStep == 0

\* line 33: self.crit(output, y, step=epoch, max_kld_step=self.max_kld_step)
CritStepArg(epoch) == epoch

StepStages(c, assertFails, decays) ==
    <<"pr_force", "forward",
      IF self.fp16 THEN "m.zero_grad" ELSE "opt.zero_grad", "crit">>
    \o (IF c.raised THEN <<"raise">>
        ELSE IF assertFails THEN <<"assert", "raise">>
        ELSE (IF self.loss_scale # 1 THEN <<"assert", "scale">> ELSE <<>>)
          \o (IF self.reg_fn THEN <<"reg_fn">> ELSE <<>>)
          \o <<"backward">>
          \o (IF self.fp16 THEN <<"update_fp32_grads">> ELSE <<>>)
          \o (IF self.loss_scale # 1 THEN <<"unscale">> ELSE <<>>)
          \o (IF self.clip # 0 THEN <<"clip">> ELSE <<>>)
          \o (IF decays THEN <<"weight_decay">> ELSE <<>>)
          \o <<"opt.step">>
          \o (IF self.fp16 THEN <<"copy_fp32_to_model", "synchronize">> ELSE <<>>)
          \o <<"return">>)

\* The reduced-precision path is driven with models all of whose parameters
\* receive a gradient.
step(batch, epoch) ==
    /\ self.fp16 => batch.graph = Params
    /\ LET pr       == teacher_forcing(self, epoch)
           output   == Unwrap(batch.output)
           zeroed   == ZeroGrad(m.grad)
           c        == crit(self, output, batch.y, CritStepArg(epoch),
                            self.max_kld_step, STEP)
           assertFails == self.loss_scale # 1 /\ ~self.fp16
           failed   == c.raised \/ assertFails
           raw_loss == [value |-> Val(c.loss), grad |-> batch.g]
           scaled   == IF self.loss_scale # 1
                       THEN Scaled(raw_loss, self.loss_scale) ELSE raw_loss
           loss     == IF self.reg_fn THEN Regularized(raw_loss, batch) ELSE scaled
           mgrad    == Backward(zeroed, loss)
           fp32a    == IF self.fp16 THEN UpdateFp32Grads(fp32_params, mgrad)
                       ELSE fp32_params
           fp32b    == IF self.loss_scale # 1
                       THEN Unscaled(fp32a, self.loss_scale) ELSE fp32a
           clipped  == IF self.clip # 0 THEN ClipGradNorm(mgrad, self.clip)
                       ELSE mgrad
           store    == IF self.fp16 THEN fp32b
                       ELSE [data |-> m.data, grad |-> clipped]
           decays   == WeightDecayGuard(opt)
           decayed  == IF decays THEN WeightDecay(opt, store) ELSE store
           stepped  == OptStep(opt, decayed)
           called   == [NoCall EXCEPT
                          !.op = "step", !.via = "step",
                          !.step = Some(CritStepArg(epoch)),
                          !.max_kld_step = self.max_kld_step,
                          !.raised = failed,
                          !.kld_weight = c.kld_weight,
                          !.emitted = c.emitted,
                          !.loss = c.loss,
                          !.maxBefore = hist.maxStep,
                          !.zeroSeenBefore = hist.zeroSeen,
                          !.maxSinceZeroBefore = hist.maxSinceZero,
                          !.STEPBefore = STEP,
                          !.epoch = Some(epoch),
                          !.batch = Some(batch),
                          !.pr_force = Some(pr),
                          !.stages = StepStages(c, assertFails, decays)]
       IN /\ STEP' = c.STEP
          /\ hist' = IF c.raised THEN hist ELSE Seen(hist, CritStepArg(epoch))
          /\ IF failed
             THEN /\ m' = [m EXCEPT !.pr_force = pr, !.grad = zeroed]
                  /\ last' = called
                  /\ UNCHANGED <<fp32_params, nCalls>>
             ELSE /\ m' = [pr_force |-> pr, data |-> stepped.data, grad |-> clipped]
                  /\ fp32_params' = IF self.fp16 THEN stepped ELSE fp32_params
                  /\ nCalls' = nCalls + 1
                  /\ last' = [called EXCEPT
                                !.returned = Some(Returned(raw_loss, loss)),
                                !.backprop = Some(loss),
                                !.beforeDecay = Some(store),
                                !.afterDecay = Some(decayed)]
    /\ UNCHANGED <<lc, self, opt, data>>

\* evaluate: forward, preds[0] of a tuple, self.crit(preds, y); pr is the
\* teacher-forcing probability the model is left with
EvaluateBody(batch, pr) ==
    LET preds == Unwrap(batch.output)
        c     == crit(self, preds, batch.y, DefaultStep, None, STEP)
    IN /\ m' = [m EXCEPT !.pr_force = pr]
       /\ STEP' = c.STEP
       /\ hist' = IF c.raised THEN hist ELSE Seen(hist, DefaultStep)
       /\ last' = [NoCall EXCEPT
                     !.op = "evaluate", !.via = "evaluate",
                     !.step = IF IsCvaeCrit(self) THEN Some(DefaultStep) ELSE None,
                     !.raised = c.raised,
                     !.kld_weight = c.kld_weight,
                     !.emitted = c.emitted,
                     !.loss = c.loss,
                     !.maxBefore = hist.maxStep,
                     !.zeroSeenBefore = hist.zeroSeen,
                     !.maxSinceZeroBefore = hist.maxSinceZero,
                     !.STEPBefore = STEP,
                     !.batch = Some(batch),
                     !.pr_force = Some(m.pr_force),
                     !.returned = IF c.raised THEN None
                                  ELSE Some(<<preds, Val(c.loss)>>),
                     !.stages = <<"forward", "crit">>
                                \o (IF c.raised THEN <<"raise">> ELSE <<"return">>)]
       /\ UNCHANGED <<lc, self, fp32_params, opt, nCalls, data>>

\* an evaluation that turns teacher forcing off
evaluate_forcing_zero(batch) == EvaluateBody(batch, <<0, 1>>)

evaluate(batch) == EvaluateBody(batch, m.pr_force)

----------------------------------------------------------------------------
(* Configurations, batches and initial states of the stepper *)

MaxCycle == 4

\* the epochs tried: from -1 to the longest cycle length, and epoch 10
Epochs == (-1..MaxCycle) \cup {10}

BaseConfig ==
    [teacher_forcing_epochs |-> None, max_kld_step |-> None,
     static_teacher_forcing_probability |-> None, fp16 |-> FALSE,
     loss_scale |-> 1, reg_fn |-> FALSE, clip |-> 0, crit |-> "s2sloss"]

\* configurations that vary the teacher-forcing schedule
ScheduleConfigs ==
    { [BaseConfig EXCEPT !.static_teacher_forcing_probability = sp,
                         !.teacher_forcing_epochs = c] :
        sp \in {None, Some(<<3, 10>>)},
        c \in {None} \cup {Some(k) : k \in 0..MaxCycle} }

\* configurations that vary the gradient transforms, under the two losses
\* EncoderDecoderLearner binds
OptimConfigs ==
    { [BaseConfig EXCEPT !.fp16 = f, !.loss_scale = ls, !.reg_fn = rf,
                         !.clip = cl, !.crit = cr,
                         !.max_kld_step = IF cr = "s2sloss" THEN None
                                          ELSE Some(10)] :
        f \in BOOLEAN, ls \in {1, 2}, rf \in BOOLEAN, cl \in {0, 1},
        cr \in {"s2sloss", "cvae_loss"} }

\* a stepper constructed with cvae_loss_sigmoid as its crit
SigmoidConfig ==
    [BaseConfig EXCEPT !.crit = "cvae_loss_sigmoid", !.max_kld_step = Some(10)]

InitStepper(cfg, wd) ==
    /\ self = cfg
    /\ m = [pr_force |-> <<1, 1>>,
            data |-> [p \in Params |-> 2 + p],
            grad |-> [p \in Params |-> None]]
    /\ fp32_params = IF cfg.fp16
                     THEN [data |-> [p \in Params |-> 2 + p],
                           grad |-> [p \in Params |-> None]]
                     ELSE [data |-> <<>>, grad |-> <<>>]
    /\ opt = [param_groups |->
                [i \in Params |-> [lr |-> i, wd |-> wd, params |-> {i}]]]
    /\ nCalls = 0

\* datasets.py, HierarchicalDatasetFromDataFrame: max_sl: int = 1000
DefaultMaxSl == 1000

\* splits not called yet
NoSplits ==
    [called |-> FALSE, path |-> None, train_df |-> None, val_df |-> None,
     test_df |-> None, max_sl |-> DefaultMaxSl, reset |-> FALSE,
     existed |-> FALSE, returned |-> <<>>]

\* no examples.pickle on disk and splits not called
NoData ==
    /\ examples_pickle = None
    /\ datasets = NoSplits

IdleLoss ==
    lc = [fn |-> "none", input |-> Labelled(<<1, 1, 2>>),
          target |-> [shape |-> <<1, 1>>, data |-> <<0>>], pad_idx |-> 1,
          predict_first_token |-> FALSE, out |-> NoOut]

\* steppers that vary the teacher-forcing schedule or the loss
Init ==
    /\ IdleLoss
    /\ NoData
    /\ STEP = 0
    /\ hist = NoHist
    /\ last = NoCall
    /\ \E cfg \in ScheduleConfigs \cup {SigmoidConfig} : InitStepper(cfg, 0)

\* steppers that vary the gradient transforms, over an optimizer whose
\* groups carry a weight decay
InitOptim ==
    /\ IdleLoss
    /\ NoData
    /\ STEP = 0
    /\ hist = NoHist
    /\ last = NoCall
    /\ \E cfg \in OptimConfigs : InitStepper(cfg, 1)

Next ==
    \/ \E batch \in Batches, epoch \in Epochs :
          nCalls < MaxCalls /\ step(batch, epoch)
    \/ \E batch \in Batches : evaluate(batch)

Spec == Init /\ [][Next]_vars

SpecOptim == InitOptim /\ [][Next]_vars

\* Sequences of step calls: steppers whose loss completes, driven with
\* plain-tensor outputs over two epochs
MaxSeqCalls == 2

SeqConfigs ==
    { cfg \in OptimConfigs :
        cfg.crit = "s2sloss" /\ (cfg.loss_scale # 1 => cfg.fp16) }

SeqBatches == { b \in Batches : b.output.kind = "tensor" }

SeqEpochs == {0, 1}

InitSeq ==
    /\ IdleLoss
    /\ NoData
    /\ STEP = 0
    /\ hist = NoHist
    /\ last = NoCall
    /\ \E cfg \in SeqConfigs : InitStepper(cfg, 0)

NextSeq ==
    \/ \E batch \in SeqBatches, epoch \in SeqEpochs :
          nCalls < MaxSeqCalls /\ step(batch, epoch)
    \/ \E batch \in SeqBatches : evaluate(batch)

SpecSeq == InitSeq /\ [][NextSeq]_vars

\* the stepper as EncoderDecoderLearner configures it for a CVAE model
CvaeConfig == [BaseConfig EXCEPT !.crit = "cvae_loss", !.max_kld_step = Some(10)]

InitCvae ==
    /\ IdleLoss
    /\ NoData
    /\ STEP = 0
    /\ hist = NoHist
    /\ last = NoCall
    /\ InitStepper(CvaeConfig, 0)

NextCvae ==
    \/ \E s \in StepArgs, max_kld_step \in KldStepArgs :
          CallCvaeLoss(s, max_kld_step)
    \/ \E s \in StepArgs, max_kld_step \in KldStepArgs :
          CallCvaeLossSigmoid(s, max_kld_step)
    \/ \E batch \in CvaeBatches, epoch \in StepArgs :
          nCalls < MaxCalls /\ step(batch, epoch)
    \/ \E batch \in CvaeBatches : evaluate(batch)

SpecCvae == InitCvae /\ [][NextCvae]_vars

----------------------------------------------------------------------------
(* Direct calls of the decoder losses on bounded inputs *)

\* targets over the padding class and one other class
TargetsOf(sl, bs, vocab, pad_idx) ==
    { [shape |-> <<sl, bs>>, data |-> d] :
        d \in [1..(sl * bs) -> {pad_idx, (pad_idx + 1) % vocab}] }

InitLoss ==
    /\ \E sl_in \in 1..MaxSl, sl \in 1..MaxSl, bs \in BatchSizes,
          vocab \in Vocabs, pad_idx \in PadIdxs, pft \in BOOLEAN :
         \E target \in TargetsOf(sl, bs, vocab, pad_idx) :
            lc = [fn |-> "none",
                  input |-> Labelled(<<sl_in, bs, vocab>>),
                  target |-> target,
                  pad_idx |-> pad_idx,
                  predict_first_token |-> pft,
                  out |-> NoOut]
    /\ STEP = 0
    /\ hist = NoHist
    /\ last = NoCall
    /\ InitStepper(BaseConfig, 0)
    /\ NoData

CallDecoderLoss ==
    /\ lc.fn = "none"
    /\ lc' = [lc EXCEPT !.fn = "decoder_loss",
                        !.out = decoder_loss(lc.input, lc.target, lc.pad_idx,
                                             lc.predict_first_token)]
    /\ UNCHANGED <<STEP, hist, last, stepper, data>>

CallDecoderLossSmoothed ==
    /\ lc.fn = "none"
    /\ lc' = [lc EXCEPT !.fn = "decoder_loss_smoothed",
                        !.out = decoder_loss_smoothed(lc.input, lc.target,
                                                      lc.pad_idx)]
    /\ UNCHANGED <<STEP, hist, last, stepper, data>>

NextLoss == CallDecoderLoss \/ CallDecoderLossSmoothed

SpecLoss == InitLoss /\ [][NextLoss]_vars

----------------------------------------------------------------------------
(* datasets.py: HierarchicalDatasetFromDataFrame.  A dataframe is kept as   *)
(* the sequence of the examples df_to_dialogue_examples can derive from it, *)
(* each with its identity and its longest utterance length sl.              *)

DataFrames ==
    { <<[id |-> 1, sl |-> 1], [id |-> 2, sl |-> 3]>>,
      <<[id |-> 3, sl |-> 2]>>,
      <<[id |-> 4, sl |-> 1], [id |-> 5, sl |-> DefaultMaxSl]>> }

Paths == {None, Some("data")}

\* `if max(example.sl) < max_sl: yield example`
df_to_dialogue_examples(df, max_sl) ==
    LET Short(row) == row.sl < max_sl
    IN SelectSeq(df, Short)

\* __init__: <<the examples of the dataset, examples.pickle afterwards>>
HierarchicalDatasetFromDataFrame(df, path, max_sl, reset, file) ==
    LET derived == df_to_dialogue_examples(df, max_sl)
    IN IF ~IsNone(path)
       THEN IF ~IsNone(file) /\ ~reset
            THEN <<Val(file), file>>             \* pickle.load(fh)
            ELSE <<derived, Some(derived)>>      \* pickle.dump(examples, fh)
       ELSE <<derived, file>>

\* `None if df is None else cls(path=path, df=df, ...)`: <<dataset or None,
\* examples.pickle afterwards>>
SplitOf(df, path, max_sl, reset, file) ==
    IF IsNone(df) THEN <<None, file>>
    ELSE LET made == HierarchicalDatasetFromDataFrame(Val(df), path, max_sl,
                                                      reset, file)
         IN <<Some(made[1]), made[2]>>

\* tuple(d for d in (train_data, val_data, test_data) if d is not None)
NotNone(ds) ==
    LET Made(d) == ~IsNone(d)
        kept    == SelectSeq(ds, Made)
    IN [k \in 1..Len(kept) |-> Val(kept[k])]

\* splits: max_sl reaches the training split only, reset (a keyword of
\* **kwargs) reaches every split
splits(path, train_df, val_df, test_df, max_sl, reset) ==
    LET train_data == SplitOf(train_df, path, max_sl, reset, examples_pickle)
        val_data   == SplitOf(val_df, path, DefaultMaxSl, reset, train_data[2])
        test_data  == SplitOf(test_df, path, DefaultMaxSl, reset, val_data[2])
    IN /\ examples_pickle' = test_data[2]
       /\ datasets' = [called |-> TRUE, path |-> path, train_df |-> train_df,
                       val_df |-> val_df, test_df |-> test_df,
                       max_sl |-> max_sl, reset |-> reset,
                       existed |-> ~IsNone(examples_pickle),
                       returned |-> NotNone(<<train_data[1], val_data[1],
                                              test_data[1]>>)]
       /\ UNCHANGED <<lc, STEP, hist, last, stepper>>

OptionalDataFrames == {None} \cup { Some(df) : df \in DataFrames }

InitData ==
    /\ IdleLoss
    /\ NoData
    /\ STEP = 0
    /\ hist = NoHist
    /\ last = NoCall
    /\ InitStepper(BaseConfig, 0)

NextData ==
    \E path \in Paths, train_df \in OptionalDataFrames,
       val_df \in OptionalDataFrames, test_df \in OptionalDataFrames,
       max_sl \in {2, DefaultMaxSl}, reset \in BOOLEAN :
        splits(path, train_df, val_df, test_df, max_sl, reset)

SpecData == InitData /\ [][NextData]_vars

----------------------------------------------------------------------------
(* The shape-alignment policy stated position by position: timestep t of   *)
(* the aligned output is the model's timestep t when it exists and a row   *)
(* of zeros when it does not.                                              *)

AlignedRow(input, t, b) ==
    IF t < input.shape[1] THEN Row3(input, t, b)
    ELSE [k \in 1..input.shape[3] |-> 0]

AlignedLogits(input, steps) ==
    LET bs == input.shape[2]
    IN [n \in 1..(steps * bs) |-> AlignedRow(input, (n - 1) \div bs, (n - 1) % bs)]

ContributingTerms(input, target, pad_idx, steps) ==
    LET bs      == target.shape[2]
        pos     == [n \in 1..(steps * bs) |-> <<(n - 1) \div bs, (n - 1) % bs>>]
        Keep(p) == At2(target, p[1], p[2]) # pad_idx
        kept    == SelectSeq(pos, Keep)
    IN [n \in 1..Len(kept) |->
          <<AlignedRow(input, kept[n][1], kept[n][2]),
            At2(target, kept[n][1], kept[n][2])>>]

LossSteps == IF lc.predict_first_token THEN 1 ELSE lc.target.shape[1]

\* C4: when the output has fewer timesteps than the target, decoder_loss
\* does not fail and hands cross-entropy S*B rows of V logits, the rows of
\* the missing timesteps being all zero.
C4_ShortOutputZeroPaddedAlongSequence ==
    (lc.fn = "decoder_loss" /\ lc.input.shape[1] < lc.target.shape[1])
        => /\ ~lc.out.raised
           /\ lc.out.logits = AlignedLogits(lc.input, LossSteps)

C4_Witness ==
    /\ lc.fn = "decoder_loss"
    /\ lc.input.shape[1] < lc.target.shape[1]
    /\ lc.out.raised

\* C5: when the output has at least as many timesteps as the target, the
\* loss is made of exactly the positions (t, b) with t < S (t < 1 under
\* predict_first_token) whose target is not the padding index, each with
\* the model's logits at that position.
C5_ContributingPositions ==
    (lc.fn = "decoder_loss" /\ lc.input.shape[1] >= lc.target.shape[1])
        => /\ ~lc.out.raised
           /\ lc.out.terms =
                 ContributingTerms(lc.input, lc.target, lc.pad_idx, LossSteps)

C5_Witness ==
    /\ lc.fn = "decoder_loss"
    /\ lc.input.shape[1] > lc.target.shape[1]
    /\ ~lc.predict_first_token
    /\ lc.target.shape[1] >= 2
    /\ \E n \in 1..Len(lc.target.data) : lc.target.data[n] = lc.pad_idx
    /\ \E n \in 1..Len(lc.target.data) : lc.target.data[n] # lc.pad_idx
    /\ Len(lc.out.terms) >= 1
    /\ Len(lc.out.terms) < Len(lc.target.data)

\* C6: decoder_loss_smoothed aligns the output to the target's S timesteps:
\* zero rows are appended for missing timesteps and timesteps beyond S are
\* dropped, so exactly S*B positions, each with its target class, reach the
\* smoothed loss.
C6_SmoothedAlignsLikeDecoderLoss ==
    lc.fn = "decoder_loss_smoothed"
        => /\ ~lc.out.raised
           /\ lc.out.logits = AlignedLogits(lc.input, lc.target.shape[1])
           /\ \A n \in 1..Len(lc.out.terms) : lc.out.terms[n][2] # NoClass

C6_Witness ==
    /\ lc.fn = "decoder_loss_smoothed"
    /\ lc.input.shape[1] > lc.target.shape[1]
    /\ ~lc.out.raised
    /\ Len(lc.out.terms) > Len(lc.target.data)

----------------------------------------------------------------------------
(* S2SStepper.step: teacher forcing, returned loss, weight decay *)

\* C1: the teacher-forcing probability step writes to the model before the
\* forward pass is the static override if one is set, else 1 without a
\* cycle length C, else (C - epoch)/C for 0 <= epoch < C, else 0; with C = 4
\* it is 1, 1/2, 0, 0 at epochs 0, 2, 4, 10 and with a static 0.3 it is 0.3.
C1_TeacherForcingResolution ==
    last.op = "step" =>
        LET e  == Val(last.epoch)
            sp == self.static_teacher_forcing_probability
            C  == self.teacher_forcing_epochs
            pr == Val(last.pr_force)
        IN /\ m.pr_force = pr
           /\ last.stages[1] = "pr_force" /\ last.stages[2] = "forward"
           /\ IF ~IsNone(sp) THEN pr = Val(sp)
              ELSE IF IsNone(C) THEN RatEq(pr, <<1, 1>>)
              ELSE IF 0 <= e /\ e < Val(C) THEN RatEq(pr, <<Val(C) - e, Val(C)>>)
              ELSE RatEq(pr, <<0, 1>>)
           /\ (IsNone(sp) /\ C = Some(4)) =>
                 /\ e = 0 => RatEq(pr, <<1, 1>>)
                 /\ e = 2 => RatEq(pr, <<1, 2>>)
                 /\ e \in {4, 10} => RatEq(pr, <<0, 1>>)
           /\ sp = Some(<<3, 10>>) => RatEq(pr, <<3, 10>>)

C1_Witness ==
    /\ last.op = "step"
    /\ self.static_teacher_forcing_probability = Some(<<3, 10>>)
    /\ self.teacher_forcing_epochs = Some(4)
    /\ last.epoch = Some(2)
    /\ RatEq(m.pr_force, <<3, 10>>)

\* C2: the value step returns is the raw loss of the loss function for the
\* batch, whatever loss_scale and reg_fn are: never the scaled or the
\* regularized loss.
C2_ReturnsRawLoss ==
    (last.op = "step" /\ ~last.raised) =>
        /\ Val(last.returned) = Val(last.loss)
        /\ self.crit = "s2sloss" =>
              Val(last.returned) = <<Val(last.batch).output.nll, 1>>

C2_Witness ==
    /\ last.op = "step"
    /\ ~last.raised
    /\ self.loss_scale = 2
    /\ self.reg_fn
    /\ ~RatEq(Val(last.backprop).value, Val(last.returned))

\* C3: when the optimizer's groups carry a weight decay wd # 0, every
\* parameter with a gradient goes from v to v - wd*lr*v between
\* backpropagation and the optimizer's update, and a parameter without a
\* gradient is left as it is.
C3_DecoupledWeightDecay ==
    (last.op = "step" /\ ~last.raised) =>
        \A i \in 1..Len(opt.param_groups) :
            \A p \in opt.param_groups[i].params :
                LET group == opt.param_groups[i]
                    v     == Val(last.beforeDecay).data[p]
                    after == Val(last.afterDecay).data[p]
                IN group.wd # 0 =>
                      IF IsNone(Val(last.beforeDecay).grad[p])
                      THEN after = v
                      ELSE after = v - group.wd * group.lr * v

\* C10: evaluate is forward-only: it leaves the model (its teacher-forcing
\* probability, parameters and gradients), the optimizer, the full-precision
\* copies and STEP as they were, runs no backward pass and no optimizer
\* update, and returns the predictions tensor with the loss.
C10_EvaluateForwardOnly ==
    [][last'.op = "evaluate" =>
          /\ m' = m
          /\ opt' = opt
          /\ fp32_params' = fp32_params
          /\ STEP' = STEP
          /\ nCalls' = nCalls
          /\ \A k \in 1..Len(last'.stages) :
                last'.stages[k] \in {"forward", "crit", "raise", "return"}
          /\ ~last'.raised =>
                /\ Val(last'.returned)[1].kind = "tensor"
                /\ Val(last'.returned)[1].shape = Val(last'.batch).output.shape
                /\ Val(last'.returned)[2] = Val(last'.loss)]_vars

C10_Witness ==
    /\ last.op = "evaluate"
    /\ ~last.raised
    /\ nCalls >= 1
    /\ RatEq(m.pr_force, <<1, 2>>)
    /\ \E p \in Params : ~IsNone(m.grad[p]) /\ Val(m.grad[p]) # 0

----------------------------------------------------------------------------
(* The CVAE losses: KL annealing weight and the diagnostic counter *)

IsCvaeCall == last.op \in {"cvae_loss", "cvae_loss_sigmoid"} /\ ~last.raised

\* C7: the KL weight is 1 without max_kld_step and min((step+1)/max_kld_step, 1)
\* with it: 1/10 at step 0 and 1 at steps 9 and 20 for max_kld_step = 10; it
\* lies in (0, 1] and does not decrease with step.  S2SStepper.step passes
\* its epoch argument as step.
C7_KldAnnealingWeight ==
    /\ IsCvaeCall =>
          LET s  == Val(last.step)
              mk == last.max_kld_step
              w  == Val(last.kld_weight)
          IN /\ IsNone(mk) => RatEq(w, <<1, 1>>)
             /\ ~IsNone(mk) =>
                   IF s + 1 < Val(mk) THEN RatEq(w, <<s + 1, Val(mk)>>)
                   ELSE RatEq(w, <<1, 1>>)
             /\ mk = Some(10) =>
                   /\ s = 0 => RatEq(w, <<1, 10>>)
                   /\ s \in {9, 20} => RatEq(w, <<1, 1>>)
             /\ RatLt(<<0, 1>>, w)
             /\ RatLe(w, <<1, 1>>)
             /\ \A s2 \in 0..s : RatLe(kld_weight(s2, mk), w)
    /\ last.op = "step" =>
          /\ last.step = last.epoch
          /\ last.max_kld_step = self.max_kld_step

C7_Witness ==
    /\ IsCvaeCall
    /\ last.step = Some(0)
    /\ last.max_kld_step = Some(10)
    /\ RatEq(Val(last.kld_weight), <<1, 10>>)

\* C8: a call of a CVAE loss emits the diagnostic line exactly when its step
\* argument is strictly greater than every step value passed earlier.
C8_DiagnosticOncePerNewStep ==
    IsCvaeCall => (last.emitted <=> Val(last.step) > last.maxBefore)

\* C9: a call with step 0 leaves STEP at 0, and in the run that a call with
\* step 0 starts, a call whose step exceeds every step of that run emits.
C9_ResetOnStepZero ==
    IsCvaeCall =>
        /\ Val(last.step) = 0 => STEP = 0
        /\ (last.zeroSeenBefore /\ Val(last.step) > last.maxSinceZeroBefore)
              => last.emitted

----------------------------------------------------------------------------
(* The stepper with a CVAE model, loss scaling, and sequences of steps *)

IsCvaeStepperCall ==
    /\ last.op \in {"step", "evaluate"}
    /\ self.crit = "cvae_loss"
    /\ Val(last.batch).output.kind = "tuple"

\* C11: when the loss is cvae_loss and the model returns the 6-tuple, the
\* loss called by step and by evaluate does not fail on unpacking and is
\* decoder_loss + bow_loss + kld_loss * kld_weight of the tuple's components.
C11_CvaeLossReceivesWholeTuple ==
    IsCvaeStepperCall =>
        /\ ~last.raised
        /\ ~IsNone(last.kld_weight)
        /\ last.loss = Some(Total(Val(last.batch).output, Val(last.kld_weight)))

C11_Witness ==
    /\ IsCvaeStepperCall
    /\ last.op = "step"
    /\ last.raised
    /\ last.stages = <<"pr_force", "forward", "opt.zero_grad", "crit", "raise">>

\* C12: under fp16 with loss_scale # 1, the gradient the optimizer consumes
\* for a parameter is the gradient of the unscaled loss that was
\* backpropagated: the raw loss, plus the penalty when a reg_fn is given.
C12_UnscaleUndoesScale ==
    (last.op = "step" /\ ~last.raised /\ self.fp16 /\ self.loss_scale # 1) =>
        \A p \in Val(last.batch).graph :
            Val(last.beforeDecay).grad[p] =
                Some(Val(last.batch).g[p]
                     + (IF self.reg_fn THEN Val(last.batch).r[p] ELSE 0))

C12_Witness ==
    /\ last.op = "step"
    /\ ~last.raised
    /\ self.fp16
    /\ self.loss_scale = 2
    /\ self.reg_fn
    /\ Val(last.beforeDecay).grad[1] = Some(3)

\* position of a stage in the stages a call went through, 0 when absent
StageIndex(stages, name) ==
    IF \E k \in 1..Len(stages) : stages[k] = name
    THEN CHOOSE k \in 1..Len(stages) : stages[k] = name
    ELSE 0

\* the stages every completed step goes through, in the order stated
MainStages ==
    <<"forward", IF self.fp16 THEN "m.zero_grad" ELSE "opt.zero_grad", "crit",
      "backward", "opt.step">>
    \o (IF self.fp16 THEN <<"copy_fp32_to_model", "synchronize">> ELSE <<>>)
    \o <<"return">>

GradientTransforms == {"update_fp32_grads", "unscale", "clip", "weight_decay"}

\* what the gradient transforms make of this step's backward pass
TransformedGrad(p) ==
    LET own   == Val(last.backprop).grad
        total == SumAbs([q \in Params |-> IF q \in DOMAIN own THEN Some(own[q])
                                          ELSE None], Params)
    IN IF self.fp16 THEN own[p] \div self.loss_scale
       ELSE IF self.clip # 0 /\ total >= self.clip /\ total > 0
            THEN (own[p] * self.clip) \div total
            ELSE own[p]

\* C13: every completed step runs forward, zero gradients (model.zero_grad
\* under fp16, optimizer.zero_grad otherwise), loss, backward, gradient
\* transforms, optimizer update, and under fp16 copy-back then
\* synchronization, before it returns; its optimizer update consumes only
\* the gradients of its own backward pass and is applied to the model when
\* it returns.
C13_StagesInOrderAndOwnGradients ==
    (last.op = "step" /\ ~last.raised) =>
        /\ \A k \in 1..Len(MainStages) :
              StageIndex(last.stages, MainStages[k]) > 0
        /\ \A k \in 1..(Len(MainStages) - 1) :
              StageIndex(last.stages, MainStages[k])
                 < StageIndex(last.stages, MainStages[k + 1])
        /\ last.stages[Len(last.stages)] = "return"
        /\ StageIndex(last.stages,
                      IF self.fp16 THEN "opt.zero_grad" ELSE "m.zero_grad") = 0
        /\ \A k \in 1..Len(last.stages) :
              last.stages[k] \in GradientTransforms =>
                  /\ StageIndex(last.stages, "backward") < k
                  /\ k < StageIndex(last.stages, "opt.step")
        /\ \A p \in Params :
              LET used == Val(last.beforeDecay).grad[p]
              IN IF p \in Val(last.batch).graph
                 THEN used = Some(TransformedGrad(p))
                 ELSE used \in {None, Some(0)}
        /\ \A p \in Params :
              LET used == Val(last.beforeDecay).grad[p]
                  v    == Val(last.afterDecay).data[p]
              IN m.data[p] = IF IsNone(used) THEN v
                             ELSE v - opt.param_groups[p].lr * Val(used)
        /\ self.fp16 => fp32_params.data = m.data

C13_Witness ==
    /\ last.op = "step"
    /\ ~last.raised
    /\ nCalls = 2
    /\ self.fp16
    /\ self.loss_scale = 2
    /\ self.clip # 0
    /\ StageIndex(last.stages, "synchronize") > 0
    /\ Val(last.beforeDecay).grad[1] = Some(4)

----------------------------------------------------------------------------
(* HierarchicalDatasetFromDataFrame.splits *)

SuppliedFrames ==
    NotNone(<<datasets.train_df, datasets.val_df, datasets.test_df>>)

\* splits called on a directory without examples.pickle, reset false, with
\* pairwise distinct dataframes
IsFreshSplitsCall ==
    /\ datasets.called
    /\ ~IsNone(datasets.path)
    /\ ~datasets.reset
    /\ ~datasets.existed
    /\ \A j, k \in 1..Len(SuppliedFrames) :
          j # k => SuppliedFrames[j] # SuppliedFrames[k]

\* C14: splits with a path and distinct dataframes returns one dataset per
\* supplied dataframe, each holding the examples derived from its own
\* dataframe, never those cached while building another split.
C14_EachSplitHoldsItsOwnExamples ==
    IsFreshSplitsCall =>
        /\ Len(datasets.returned) = Len(SuppliedFrames)
        /\ \A k \in 1..Len(SuppliedFrames) :
              datasets.returned[k] \in
                  { df_to_dialogue_examples(SuppliedFrames[k], max_sl) :
                      max_sl \in {datasets.max_sl, DefaultMaxSl} }

C14_Witness ==
    /\ IsFreshSplitsCall
    /\ ~IsNone(datasets.train_df)
    /\ ~IsNone(datasets.val_df)
    /\ datasets.returned[2] = datasets.returned[1]
    /\ datasets.returned[2] #
          df_to_dialogue_examples(Val(datasets.val_df), DefaultMaxSl)

====
